---- MODULE Spec2Model ----
(***************************************************************************)
(* Model of the Decred withdrawal path of the omni-bridge NEAR contract:   *)
(*   near/omni-bridge/src/dcr.rs   submit_transfer_to_dcr_connector and    *)
(*                                 submit_transfer_to_dcr_connector_callback*)
(*   near/omni-types/src/dcr.rs    DcrTokenReceiverMessage, DcrTxOut       *)
(*                                                                         *)
(* A text (a Rust String holding JSON) is modelled by the JSON document it *)
(* lexes to: the empty string, a string that is not JSON, a JSON string or *)
(* a one-key JSON object.  The typed decoders below are what serde does    *)
(* with such a document for the two enums of the source.                   *)
(***************************************************************************)
EXTENDS Integers, Sequences, FiniteSets, TLC

(***************************************************************************)
(* Bounds of the model.                                                    *)
(***************************************************************************)
\* number of transfer ids (origin nonces) the upstream deposit step may use
MaxTransfers == 1
\* number of accepted submissions (promise chains) in one behaviour
MaxPromises == 2
\* width, in bits, that stands for the 128 bits of U128 / u128
U128Bits == 12
\* width, in bits, that stands for the 64 bits of U64 / u64
U64Bits == 8

U128Modulus == 2 ^ U128Bits
U64Modulus == 2 ^ U64Bits

(***************************************************************************)
(* JSON documents.                                                         *)
(***************************************************************************)
\* a JSON value in a field position: jt is its JSON type, s the content of
\* a string that is not a decimal numeral, d the digits of a string that is
\* one, items the elements of an array
JAbsent == [jt |-> "absent", s |-> "", d |-> <<>>, items |-> <<>>]
JNull == [jt |-> "null", s |-> "", d |-> <<>>, items |-> <<>>]
JObject == [jt |-> "object", s |-> "", d |-> <<>>, items |-> <<>>]
JString(str) == [jt |-> "string", s |-> str, d |-> <<>>, items |-> <<>>]
JDigits(digits) == [jt |-> "string", s |-> "", d |-> digits, items |-> <<>>]
JArray(elems) == [jt |-> "array", s |-> "", d |-> <<>>, items |-> elems]

\* the body of an object that is not a Withdraw body
NoBody == [target_dcr_address |-> JAbsent, input |-> JAbsent, output |-> JAbsent, max_fee_rate |-> JAbsent]

\* the texts: kind is "empty" (the empty string), "invalid" (not JSON),
\* "string" (a JSON string s) or "object" (a JSON object with the one key
\* key, whose value is val, and whose fields are body when val is an object)
EmptyText == [kind |-> "empty", s |-> "", key |-> "", val |-> JAbsent, body |-> NoBody]
InvalidText == [kind |-> "invalid", s |-> "", key |-> "", val |-> JAbsent, body |-> NoBody]
StringText(str) == [kind |-> "string", s |-> str, key |-> "", val |-> JAbsent, body |-> NoBody]
ObjectText(k, v) == [kind |-> "object", s |-> "", key |-> k, val |-> v, body |-> NoBody]
StructText(k, b) == [kind |-> "object", s |-> "", key |-> k, val |-> JObject, body |-> b]

\* the value of a sequence of decimal digits
RECURSIVE DecValue(_)
DecValue(d) == IF d = <<>> THEN 0 ELSE 10 * DecValue(SubSeq(d, 1, Len(d) - 1)) + d[Len(d)]

\* str::parse::<uN>() on the content of a JSON string: a non-empty run of
\* digits whose value fits the width; {} stands for Err, {n} for Ok(n)
ParseUnsigned(v, modulus) ==
    IF v.jt = "string" /\ v.s = "" /\ v.d # <<>> /\ DecValue(v.d) < modulus
    THEN {DecValue(v.d)}
    ELSE {}

(***************************************************************************)
(* omni_types::dcr                                                         *)
(***************************************************************************)
U16Modulus == 65536

\* a Rust String that is not a text: s its content when it is no numeral,
\* d its digits when it is one
Str(str) == [s |-> str, d |-> <<>>]

\* DcrTxOut: an element of the output array decodes when its value fits
\* u64 and its version fits u16
DcrTxOutOk(o) == o.value < U64Modulus /\ o.version < U16Modulus

DepositProtocolFee == [variant |-> "DepositProtocolFee", target_dcr_address |-> Str(""), input |-> <<>>, output |-> <<>>, max_fee_rate |-> {}]
Withdraw(addr, in, out, rate) == [variant |-> "Withdraw", target_dcr_address |-> addr, input |-> in, output |-> out, max_fee_rate |-> rate]

\* WithdrawBodyOk with max_fee_rate declared Option<U64>
WithdrawBodyOkU64(b) ==
    /\ b.target_dcr_address.jt = "string"
    /\ b.input.jt = "array"
    /\ b.output.jt = "array"
    /\ \A i \in 1..Len(b.output.items) : DcrTxOutOk(b.output.items[i])
    /\ \/ b.max_fee_rate.jt \in {"absent", "null"}
       \/ ParseUnsigned(b.max_fee_rate, U64Modulus) # {}

\* the fields of a Withdraw body decode: the three required fields are
\* present with the right JSON type, max_fee_rate is absent, null or a
\* decimal string that fits U128
WithdrawBodyOk(b) ==
    /\ b.target_dcr_address.jt = "string"
    /\ b.input.jt = "array"
    /\ b.output.jt = "array"
    /\ \A i \in 1..Len(b.output.items) : DcrTxOutOk(b.output.items[i])
    /\ \/ b.max_fee_rate.jt \in {"absent", "null"}
       \/ ParseUnsigned(b.max_fee_rate, U128Modulus) # {}

\* the content of a JSON string as a Rust String
StringOf(v) == [s |-> v.s, d |-> v.d]

\* serde_json::from_str::<DcrTokenReceiverMessage>: {} stands for Err,
\* {m} for Ok(m) (externally tagged enum)
DcrTokenReceiverMessageFromStr(t) ==
    IF t.kind = "string" /\ t.s = "DepositProtocolFee" THEN {DepositProtocolFee}
    ELSE IF t.kind = "object" /\ t.key = "DepositProtocolFee" /\ t.val.jt = "null" THEN {DepositProtocolFee}
    ELSE IF t.kind = "object" /\ t.key = "Withdraw" /\ t.val.jt = "object" /\ WithdrawBodyOk(t.body)
    THEN {Withdraw(StringOf(t.body.target_dcr_address), t.body.input.items, t.body.output.items,
                   IF t.body.max_fee_rate.jt \in {"absent", "null"} THEN {}
                   ELSE ParseUnsigned(t.body.max_fee_rate, U128Modulus))}
    ELSE {}

(***************************************************************************)
(* omni_bridge::dcr, the embedded metadata                                 *)
(***************************************************************************)
\* serde_json::from_str::<DcrUtxoChainMsg>: {} stands for Err, {r} for
\* Ok(MaxFeeRate(U64(r)))
DcrUtxoChainMsgFromStr(t) ==
    IF t.kind = "object" /\ t.key = "MaxFeeRate"
    THEN ParseUnsigned(t.val, U64Modulus)
    ELSE {}

(***************************************************************************)
(* The derived encoders (Serialize) of the two enums                       *)
(***************************************************************************)
\* the decimal digits of n, as U128 and U64 write themselves
RECURSIVE Digits(_)
Digits(n) == IF n < 10 THEN <<n>> ELSE Append(Digits(n \div 10), n % 10)

\* a Rust String as a JSON string
StringToJson(str) == [jt |-> "string", s |-> str.s, d |-> str.d, items |-> <<>>]

\* Option<U128>: None is written as null, Some(n) as the string of n
OptionU128ToJson(rate) == IF rate = {} THEN JNull ELSE JDigits(Digits(CHOOSE n \in rate : TRUE))

\* serde_json::to_string of a DcrTokenReceiverMessage: a unit variant is
\* the string of its name, a struct variant an object keyed by its name
DcrTokenReceiverMessageToString(m) ==
    IF m.variant = "DepositProtocolFee" THEN StringText("DepositProtocolFee")
    ELSE StructText("Withdraw", [target_dcr_address |-> StringToJson(m.target_dcr_address),
                                 input |-> JArray(m.input),
                                 output |-> JArray(m.output),
                                 max_fee_rate |-> OptionU128ToJson(m.max_fee_rate)])

\* serde_json::to_string of DcrUtxoChainMsg::MaxFeeRate(U64(n))
DcrUtxoChainMsgToString(n) == ObjectText("MaxFeeRate", JDigits(Digits(n)))

(***************************************************************************)
(* omni_types: addresses, fees, transfer messages                          *)
(***************************************************************************)
\* OmniAddress: a chain tag and an address
OmniAddress(c, a) == [chain |-> c, address |-> Str(a)]

\* OmniAddress::get_utxo_address: Some(address) for the UTXO chains, None
\* for the others ({} stands for None)
get_utxo_address(recipient) ==
    IF recipient.chain \in {"Dcr", "Btc"} THEN {recipient.address} ELSE {}

\* TransferMessage::get_destination_chain: the chain of the recipient
get_destination_chain(message) == message.recipient.chain

\* TransferMessage::get_transfer_id: the id a message is stored under
get_transfer_id(message) == message.origin_nonce

Fee(f, n) == [fee |-> f, native_fee |-> n]

(***************************************************************************)
(* The contract's configuration and accounts                               *)
(***************************************************************************)
BridgeAccount == "bridge.near"
Relayer == "relayer.near"
Alice == "alice.near"
Bob == "bob.near"
WDcrToken == "wdcr.near"
DcrConnector == "dcr-connector.near"

\* the accounts that call the contract from outside
Callers == {Relayer, Alice}

\* the accounts holding Role::DAO or Role::UnrestrictedRelayer
ExemptFromPause == {Relayer}

\* Contract::get_utxo_chain_token: the wrapped token of a UTXO chain
get_utxo_chain_token(chain_kind) == IF chain_kind = "Dcr" THEN WDcrToken ELSE "wbtc.near"

\* Contract::get_utxo_chain_connector: the connector account of a chain
get_utxo_chain_connector(chain_kind) == IF chain_kind = "Dcr" THEN DcrConnector ELSE "btc-connector.near"

\* Contract::get_token_id: a Near address is its own token id, a foreign
\* address is looked up in the token registry
get_token_id(token) ==
    IF token.chain = "Near" THEN {token.address.s}
    ELSE IF token = OmniAddress("Eth", "0xdc") THEN {WDcrToken}
    ELSE {"wbtc.near"}

\* Gas, in Tgas
FT_TRANSFER_CALL_GAS == 50
SUBMIT_TRANSFER_TO_DCR_CONNECTOR_CALLBACK_GAS == 5

(***************************************************************************)
(* The values the model draws its inputs from                              *)
(***************************************************************************)
TransferIds == 1..MaxTransfers

MetaRate5 == ObjectText("MaxFeeRate", JDigits(<<5>>))
MetaRate05 == ObjectText("MaxFeeRate", JDigits(<<0, 5>>))
MetaRateTooBig == ObjectText("MaxFeeRate", JDigits(<<9, 9, 9>>))

BaseMessage(id) ==
    [origin_nonce |-> id, token |-> OmniAddress("Near", WDcrToken), amount |-> 3,
     recipient |-> OmniAddress("Dcr", "DsA"), fee |-> Fee(1, 0), sender |-> OmniAddress("Near", Alice),
     msg |-> EmptyText]

\* the transfer messages the upstream deposit step may have stored under id
MessageSamples(id) ==
    { BaseMessage(id),
      [BaseMessage(id) EXCEPT !.msg = MetaRate05, !.fee = Fee(1, 1)],
      [BaseMessage(id) EXCEPT !.msg = MetaRateTooBig],
      [BaseMessage(id) EXCEPT !.recipient = OmniAddress("Btc", "DsA")],
      [BaseMessage(id) EXCEPT !.recipient = OmniAddress("Eth", "DsA")],
      [BaseMessage(id) EXCEPT !.token = OmniAddress("Near", "wbtc.near")],
      [BaseMessage(id) EXCEPT !.token = OmniAddress("Eth", "0xdc"), !.amount = 2, !.fee = Fee(0, 0)],
      [BaseMessage(id) EXCEPT !.amount = 1, !.fee = Fee(3, 0)] }

\* TransferMessageStorage: a message and its owner; the first id draws from
\* all the samples, the others hold the base message
StorageSamples(id) ==
    { [message |-> m, owner |-> IF m.msg = EmptyText THEN Alice ELSE Bob] :
        m \in IF id = 1 THEN MessageSamples(id) ELSE {BaseMessage(id)} }

TxOut == [value |-> 2, version |-> 0, pk_script |-> "76a9"]

WithdrawBody(addr, rate) ==
    [target_dcr_address |-> JString(addr), input |-> JArray(<<"tx:0">>), output |-> JArray(<<TxOut>>), max_fee_rate |-> rate]

\* the raw instruction strings a caller may pass
MsgSamples ==
    { StructText("Withdraw", WithdrawBody("DsA", JAbsent)),
      StructText("Withdraw", WithdrawBody("DsA", JDigits(<<5>>))),
      StructText("Withdraw", WithdrawBody("DsA", JDigits(<<7>>))),
      StructText("Withdraw", WithdrawBody("DsA", JDigits(<<9, 9, 9, 9>>))),
      StructText("Withdraw", WithdrawBody("DsB", JDigits(<<5>>))),
      StructText("Withdraw", [WithdrawBody("DsA", JAbsent) EXCEPT !.input = JAbsent]),
      StringText("DepositProtocolFee"),
      MetaRate5,
      InvalidText }

\* the arguments of a call: Option<AccountId> and Option<Fee> are sets ({}
\* stands for None), prepaid_gas is in Tgas
Args(caller, msg, fee_recipient, fee, prepaid_gas) ==
    [caller |-> caller, msg |-> msg, fee_recipient |-> fee_recipient, fee |-> fee, prepaid_gas |-> prepaid_gas]

PlainWithdraw == StructText("Withdraw", WithdrawBody("DsA", JAbsent))

\* the calls of submit_transfer_to_dcr_connector for the first id: every
\* instruction with no optional argument, and each other argument varied in
\* turn
FirstArgSamples ==
    { Args(Relayer, m, {}, {}, 300) : m \in MsgSamples }
    \cup { Args(Alice, PlainWithdraw, {}, {}, 300),
           Args(Relayer, PlainWithdraw, {Bob}, {Fee(1, 0)}, 300),
           Args(Relayer, PlainWithdraw, {}, {Fee(1, 1)}, 300),
           Args(Alice, StructText("Withdraw", WithdrawBody("DsA", JDigits(<<5>>))), {Bob}, {Fee(1, 1)}, 300),
           Args(Relayer, PlainWithdraw, {}, {}, 10) }

\* the calls for the other ids: one that their record accepts and one that
\* it rejects
OtherArgSamples ==
    { Args(Relayer, PlainWithdraw, {}, {}, 300),
      Args(Relayer, StructText("Withdraw", WithdrawBody("DsB", JDigits(<<5>>))), {}, {}, 300) }

ArgSamples(id) == IF id = 1 THEN FirstArgSamples ELSE OtherArgSamples

(***************************************************************************)
(* The state of the contract and of the runtime                            *)
(***************************************************************************)
VARIABLES
    transfers,        \* the registry: TransferId -> TransferMessageStorage, defined on the pending ids
    promises,         \* the promise chains created by accepted submissions, in creation order
    fee_payouts,      \* the calls of send_fee_internal, in order
    created,          \* the ids the upstream deposit step has created
    last,             \* the outcome of the last call: op, transfer_id, outcome, promise, call_result
    codec             \* the last encoding and decoding: op, value, text, decoded

vars == <<transfers, promises, fee_payouts, created, last, codec>>

\* the settlement outcomes of a call that transfers amount: Err(PromiseError)
\* and Ok(U128(n))
Err == [ok |-> FALSE, val |-> 0]
Ok(n) == [ok |-> TRUE, val |-> n]
CallResults(amount) == {Err, Ok(0), Ok(1), Ok(amount)}

\* call_result is the result a callback was given (Err for the other calls)
Outcome(op, id, outcome, p) ==
    [op |-> op, transfer_id |-> id, outcome |-> outcome, promise |-> p, call_result |-> Err]

\* nothing encoded yet
NoCodec == [op |-> "none", value |-> 0, text |-> EmptyText, decoded |-> {}]

\* the registries the upstream deposit step can have left: each id is
\* either not created or holds one of the sample records, stored under the
\* id of its message
Registries ==
    UNION { { f \in [S -> UNION {StorageSamples(id) : id \in S}] :
                \A id \in S : get_transfer_id(f[id].message) = id } : S \in SUBSET TransferIds }

Init ==
    /\ transfers \in Registries
    /\ promises = <<>>
    /\ fee_payouts = <<>>
    /\ created = DOMAIN transfers
    /\ last = Outcome("init", 0, "ok", 0)
    /\ codec = NoCodec

(***************************************************************************)
(* submit_transfer_to_dcr_connector                                        *)
(***************************************************************************)
\* amount - fee.fee on u128: the difference when it is not negative, and
\* otherwise a panic (a build with overflow checks) or the wrapped value (a
\* build without)
TransferableAmount(message) == (message.amount - message.fee.fee + U128Modulus) % U128Modulus
SubtractionOverflows(message) == message.amount < message.fee.fee

\* FeeRateCheck with the comparison made only when the instruction carries
\* a max_fee_rate
FeeRateCheckWhenPresent(transfer_msg, max_fee_rate) ==
    IF transfer_msg.kind = "empty" THEN "ok"
    ELSE IF DcrUtxoChainMsgFromStr(transfer_msg) = {} THEN "Invalid Transfer MSG for DCR UTXO chain"
    ELSE IF max_fee_rate = {} THEN "ok"
    ELSE IF max_fee_rate # DcrUtxoChainMsgFromStr(transfer_msg) THEN "Invalid max fee rate"
    ELSE "ok"

\* the cross-check of the embedded metadata against the instruction's
\* max_fee_rate: the panic message, or "ok"
FeeRateCheck(transfer_msg, max_fee_rate) ==
    IF transfer_msg.kind = "empty" THEN "ok"
    ELSE IF DcrUtxoChainMsgFromStr(transfer_msg) = {} THEN "Invalid Transfer MSG for DCR UTXO chain"
    ELSE IF max_fee_rate = {} THEN "max_fee_rate is missing"
    ELSE IF max_fee_rate # DcrUtxoChainMsgFromStr(transfer_msg) THEN "Invalid max fee rate"
    ELSE "ok"

\* DestinationCheck without the comparison of the addresses
DestinationCheckNoAddress(transfer, message) ==
    IF get_utxo_address(transfer.message.recipient) = {} THEN "Invalid destination chain for DCR"
    ELSE IF message.variant # "Withdraw" THEN "Invalid DCR message type"
    ELSE FeeRateCheck(transfer.message.msg, message.max_fee_rate)

\* DestinationCheck with the variant of the instruction looked at before
\* the recipient of the record
DestinationCheckVariantFirst(transfer, message) ==
    IF message.variant # "Withdraw" THEN "Invalid DCR message type"
    ELSE IF get_utxo_address(transfer.message.recipient) = {} THEN "Invalid destination chain for DCR"
    ELSE IF get_utxo_address(transfer.message.recipient) # {message.target_dcr_address} THEN "Incorrect target address"
    ELSE FeeRateCheck(transfer.message.msg, message.max_fee_rate)

\* the destination checks: the recipient resolves to a UTXO address, the
\* instruction is a Withdraw, its target is that address, and the fee
\* rates agree
DestinationCheck(transfer, message) ==
    IF get_utxo_address(transfer.message.recipient) = {} THEN "Invalid destination chain for DCR"
    ELSE IF message.variant # "Withdraw" THEN "Invalid DCR message type"
    ELSE IF get_utxo_address(transfer.message.recipient) # {message.target_dcr_address} THEN "Incorrect target address"
    ELSE FeeRateCheck(transfer.message.msg, message.max_fee_rate)

\* RecordCheck without the comparison of the tokens
RecordCheckNoToken(transfer, fee) ==
    IF fee # {} /\ fee # {transfer.message.fee} THEN "Invalid fee"
    ELSE IF get_destination_chain(transfer.message) # "Dcr" THEN "submit_transfer_to_dcr_connector can only be used for Decred"
    ELSE "ok"

\* RecordCheck with the asserted fee compared on its fee field alone
RecordCheckFeeAmountOnly(transfer, fee) ==
    IF fee # {} /\ transfer.message.fee.fee \notin {f.fee : f \in fee} THEN "Invalid fee"
    ELSE IF get_destination_chain(transfer.message) # "Dcr" THEN "submit_transfer_to_dcr_connector can only be used for Decred"
    ELSE IF get_token_id(transfer.message.token) # {get_utxo_chain_token(get_destination_chain(transfer.message))}
         THEN "Only the native token of this UTXO chain can be transferred."
    ELSE "ok"

\* the checks on the record after the destination checks: asserted fee,
\* chain kind, token
RecordCheck(transfer, fee) ==
    IF fee # {} /\ fee # {transfer.message.fee} THEN "Invalid fee"
    ELSE IF get_destination_chain(transfer.message) # "Dcr" THEN "submit_transfer_to_dcr_connector can only be used for Decred"
    ELSE IF get_token_id(transfer.message.token) # {get_utxo_chain_token(get_destination_chain(transfer.message))}
         THEN "Only the native token of this UTXO chain can be transferred."
    ELSE "ok"

\* everything the handler does before it removes the record, in the order
\* of the code: the panic message of the first failing step, or "ok"
Validate(registry, transfer_id, msg, fee, overflow_checks) ==
    IF transfer_id \notin DOMAIN registry THEN "ERR_TRANSFER_NOT_EXIST"
    ELSE IF DcrTokenReceiverMessageFromStr(msg) = {} THEN "INVALID DCR MSG"
    ELSE IF overflow_checks /\ SubtractionOverflows(registry[transfer_id].message) THEN "attempt to subtract with overflow"
    ELSE LET message == CHOOSE m \in DcrTokenReceiverMessageFromStr(msg) : TRUE
             destination == DestinationCheck(registry[transfer_id], message)
         IN  IF destination # "ok" THEN destination ELSE RecordCheck(registry[transfer_id], fee)

\* ResolveFeeRecipient that ignores the argument
ResolveFeeRecipientCallerOnly(fee_recipient, predecessor) == predecessor

\* fee_recipient.unwrap_or(env::predecessor_account_id())
ResolveFeeRecipient(fee_recipient, predecessor) ==
    IF fee_recipient = {} THEN predecessor ELSE CHOOSE a \in fee_recipient : TRUE

\* PromiseChain with the two account arguments of the callback swapped
PromiseChainOwnerSwapped(transfer_id, transfer, msg, fee_recipient) ==
    [ transfer_id |-> transfer_id,
      stage |-> "call",
      call |-> [ receiver |-> get_utxo_chain_token(get_destination_chain(transfer.message)),
                 method |-> "ft_transfer_call",
                 receiver_id |-> get_utxo_chain_connector(get_destination_chain(transfer.message)),
                 amount |-> TransferableAmount(transfer.message),
                 msg |-> msg ],
      callback |-> [ receiver |-> BridgeAccount,
                     transfer_msg |-> transfer.message,
                     transfer_owner |-> fee_recipient,
                     fee_recipient |-> transfer.owner ],
      call_result |-> Err,
      removed |-> transfer ]

\* PromiseChain without the continuation: the call is dispatched alone and
\* no callback is attached to it
PromiseChainNoCallback(transfer_id, transfer, msg, fee_recipient) ==
    [ transfer_id |-> transfer_id,
      stage |-> "detached",
      call |-> [ receiver |-> get_utxo_chain_token(get_destination_chain(transfer.message)),
                 method |-> "ft_transfer_call",
                 receiver_id |-> get_utxo_chain_connector(get_destination_chain(transfer.message)),
                 amount |-> TransferableAmount(transfer.message),
                 msg |-> msg ],
      callback |-> [ receiver |-> BridgeAccount,
                     transfer_msg |-> transfer.message,
                     transfer_owner |-> transfer.owner,
                     fee_recipient |-> fee_recipient ],
      call_result |-> Err,
      removed |-> transfer ]

\* PromiseChain with the callback scheduled beside the call instead of
\* after it: the callback is ready to run before the call has resolved
PromiseChainNoThen(transfer_id, transfer, msg, fee_recipient) ==
    [ transfer_id |-> transfer_id,
      stage |-> "callback",
      call |-> [ receiver |-> get_utxo_chain_token(get_destination_chain(transfer.message)),
                 method |-> "ft_transfer_call",
                 receiver_id |-> get_utxo_chain_connector(get_destination_chain(transfer.message)),
                 amount |-> TransferableAmount(transfer.message),
                 msg |-> msg ],
      callback |-> [ receiver |-> BridgeAccount,
                     transfer_msg |-> transfer.message,
                     transfer_owner |-> transfer.owner,
                     fee_recipient |-> fee_recipient ],
      call_result |-> Err,
      removed |-> transfer ]

\* the promise chain of an accepted submission: ft_transfer_call on the
\* wrapped token, then the callback on the contract itself
PromiseChain(transfer_id, transfer, msg, fee_recipient) ==
    [ transfer_id |-> transfer_id,
      stage |-> "call",
      call |-> [ receiver |-> get_utxo_chain_token(get_destination_chain(transfer.message)),
                 method |-> "ft_transfer_call",
                 receiver_id |-> get_utxo_chain_connector(get_destination_chain(transfer.message)),
                 amount |-> TransferableAmount(transfer.message),
                 msg |-> msg ],
      callback |-> [ receiver |-> BridgeAccount,
                     transfer_msg |-> transfer.message,
                     transfer_owner |-> transfer.owner,
                     fee_recipient |-> fee_recipient ],
      call_result |-> Err,
      removed |-> transfer ]

\* Contract::remove_transfer_message
remove_transfer_message(registry, transfer_id) ==
    [id \in DOMAIN registry \ {transfer_id} |-> registry[id]]

\* SubmitOutcome with promises that reserve no static gas
SubmitOutcomeNoGas(registry, transfer_id, msg, fee, prepaid_gas, overflow_checks) ==
    Validate(registry, transfer_id, msg, fee, overflow_checks)

\* the outcome of the whole call: the promises are created with static gas
\* FT_TRANSFER_CALL_GAS and SUBMIT_TRANSFER_TO_DCR_CONNECTOR_CALLBACK_GAS,
\* which the prepaid gas must cover
SubmitOutcome(registry, transfer_id, msg, fee, prepaid_gas, overflow_checks) ==
    IF Validate(registry, transfer_id, msg, fee, overflow_checks) # "ok"
    THEN Validate(registry, transfer_id, msg, fee, overflow_checks)
    ELSE IF prepaid_gas < FT_TRANSFER_CALL_GAS + SUBMIT_TRANSFER_TO_DCR_CONNECTOR_CALLBACK_GAS
    THEN "Exceeded the prepaid gas"
    ELSE "ok"

\* RegistryAfterSubmit without the removal
RegistryAfterSubmitKept(registry, transfer_id, outcome) == registry

\* RegistryAfterSubmit with the removal made before the checks
RegistryAfterSubmitEarly(registry, transfer_id, outcome) ==
    remove_transfer_message(registry, transfer_id)

\* the registry a call leaves: a call that panics changes nothing, a call
\* that passes every check has removed the record
RegistryAfterSubmit(registry, transfer_id, outcome) ==
    IF outcome = "ok" THEN remove_transfer_message(registry, transfer_id) ELSE registry

\* #[pause(except(roles(..)))]: while the feature is paused the gate stops
\* the callers that hold no exempt role.  The Pausable state itself is not
\* part of the model: is_paused is the environment's choice at each call.
PauseGateOpen(caller, is_paused) == ~is_paused \/ caller \in ExemptFromPause

\* overflow_checks is the build's choice; it is only a choice for a record
\* whose subtraction overflows
submit_transfer_to_dcr_connector(caller, transfer_id, msg, fee_recipient, fee, prepaid_gas, overflow_checks) ==
    /\ PauseGateOpen(caller, FALSE)
    /\ overflow_checks \/ (transfer_id \in DOMAIN transfers /\ SubtractionOverflows(transfers[transfer_id].message))
    /\ LET outcome == SubmitOutcome(transfers, transfer_id, msg, fee, prepaid_gas, overflow_checks) IN
       /\ outcome = "ok" => Len(promises) < MaxPromises
       /\ transfers' = RegistryAfterSubmit(transfers, transfer_id, outcome)
       /\ promises' = IF outcome = "ok"
                      THEN Append(promises, PromiseChain(transfer_id, transfers[transfer_id], msg,
                                                         ResolveFeeRecipient(fee_recipient, caller)))
                      ELSE promises
       /\ last' = Outcome("submit", transfer_id, outcome, IF outcome = "ok" THEN Len(promises) + 1 ELSE 0)
    /\ UNCHANGED <<fee_payouts, created, codec>>

\* a call that the pause gate stops before the handler runs
submit_while_paused(caller) ==
    /\ ~PauseGateOpen(caller, TRUE)
    /\ last' = Outcome("paused", 0, "Pausable: Method is paused", 0)
    /\ UNCHANGED <<transfers, promises, fee_payouts, created, codec>>

(***************************************************************************)
(* The settlement call resolves                                            *)
(***************************************************************************)
\* the token contract finishes ft_transfer_call of promise chain p with
\* some result
ft_transfer_call_resolves(p) ==
    /\ p \in DOMAIN promises
    /\ promises[p].stage = "call"
    /\ \E result \in CallResults(promises[p].call.amount) :
          promises' = [promises EXCEPT ![p].stage = "callback", ![p].call_result = result]
    /\ last' = Outcome("resolve", promises[p].transfer_id, "ok", p)
    /\ UNCHANGED <<transfers, fee_payouts, created, codec>>

(***************************************************************************)
(* submit_transfer_to_dcr_connector_callback                               *)
(***************************************************************************)
\* matches!(call_result, Ok(result) if result.0 > 0)
CallSucceeded(call_result) == call_result.ok /\ call_result.val > 0

\* Contract::insert_raw_transfer
insert_raw_transfer(registry, transfer_msg, transfer_owner) ==
    [id \in DOMAIN registry \cup {get_transfer_id(transfer_msg)} |->
        IF id = get_transfer_id(transfer_msg) THEN [message |-> transfer_msg, owner |-> transfer_owner]
        ELSE registry[id]]

\* Contract::send_fee_internal
send_fee_internal(payouts, transfer_msg, fee_recipient, token_fee) ==
    Append(payouts, [transfer_id |-> get_transfer_id(transfer_msg), fee_recipient |-> fee_recipient, amount |-> token_fee])

\* a promise chain whose callback has run: the runtime keeps nothing of it
Finished == [stage |-> "done"]

\* CallbackBody that takes the call for a success only when the whole
\* dispatched amount was accepted
CallbackBodyFullOnly(p, transfer_msg, transfer_owner, fee_recipient, call_result) ==
    IF call_result.ok /\ call_result.val >= promises[p].call.amount
    THEN /\ fee_payouts' = send_fee_internal(fee_payouts, transfer_msg, fee_recipient, transfer_msg.fee.fee)
         /\ promises' = [promises EXCEPT ![p] = Finished]
         /\ UNCHANGED transfers
    ELSE /\ transfers' = insert_raw_transfer(transfers, transfer_msg, transfer_owner)
         /\ promises' = [promises EXCEPT ![p] = Finished]
         /\ UNCHANGED fee_payouts

\* CallbackBody that also reinserts the record when it pays the fee
CallbackBodyBoth(p, transfer_msg, transfer_owner, fee_recipient, call_result) ==
    IF CallSucceeded(call_result)
    THEN /\ fee_payouts' = send_fee_internal(fee_payouts, transfer_msg, fee_recipient, transfer_msg.fee.fee)
         /\ promises' = [promises EXCEPT ![p] = Finished]
         /\ transfers' = insert_raw_transfer(transfers, transfer_msg, transfer_owner)
    ELSE /\ transfers' = insert_raw_transfer(transfers, transfer_msg, transfer_owner)
         /\ promises' = [promises EXCEPT ![p] = Finished]
         /\ UNCHANGED fee_payouts

\* CallbackBody that does not reinsert the record when the call failed
CallbackBodyNoRestore(p, transfer_msg, transfer_owner, fee_recipient, call_result) ==
    IF CallSucceeded(call_result)
    THEN /\ fee_payouts' = send_fee_internal(fee_payouts, transfer_msg, fee_recipient, transfer_msg.fee.fee)
         /\ promises' = [promises EXCEPT ![p] = Finished]
         /\ UNCHANGED transfers
    ELSE /\ promises' = [promises EXCEPT ![p] = Finished]
         /\ UNCHANGED <<transfers, fee_payouts>>

\* CallbackBody that pays the native fee of the record
CallbackBodyNativeFee(p, transfer_msg, transfer_owner, fee_recipient, call_result) ==
    IF CallSucceeded(call_result)
    THEN /\ fee_payouts' = send_fee_internal(fee_payouts, transfer_msg, fee_recipient, transfer_msg.fee.native_fee)
         /\ promises' = [promises EXCEPT ![p] = Finished]
         /\ UNCHANGED transfers
    ELSE /\ transfers' = insert_raw_transfer(transfers, transfer_msg, transfer_owner)
         /\ promises' = [promises EXCEPT ![p] = Finished]
         /\ UNCHANGED fee_payouts

\* the body of the callback, on the arguments the promise chain carries
CallbackBody(p, transfer_msg, transfer_owner, fee_recipient, call_result) ==
    IF CallSucceeded(call_result)
    THEN /\ fee_payouts' = send_fee_internal(fee_payouts, transfer_msg, fee_recipient, transfer_msg.fee.fee)
         /\ promises' = [promises EXCEPT ![p] = Finished]
         /\ UNCHANGED transfers
    ELSE /\ transfers' = insert_raw_transfer(transfers, transfer_msg, transfer_owner)
         /\ promises' = [promises EXCEPT ![p] = Finished]
         /\ UNCHANGED fee_payouts

\* the runtime runs the callback of promise chain p
submit_transfer_to_dcr_connector_callback(p) ==
    /\ p \in DOMAIN promises
    /\ promises[p].stage = "callback"
    /\ CallbackBody(p, promises[p].callback.transfer_msg, promises[p].callback.transfer_owner,
                    promises[p].callback.fee_recipient, promises[p].call_result)
    /\ last' = [Outcome("callback", promises[p].transfer_id, "ok", p) EXCEPT !.call_result = promises[p].call_result]
    /\ UNCHANGED <<created, codec>>

\* an account other than the contract calls the callback: #[private]
callback_called_directly(caller) ==
    /\ caller # BridgeAccount
    /\ last' = Outcome("direct", 0, "Method submit_transfer_to_dcr_connector_callback is private", 0)
    /\ UNCHANGED <<transfers, promises, fee_payouts, created, codec>>

Next ==
    \/ \E transfer_id \in TransferIds : \E a \in ArgSamples(transfer_id), overflow_checks \in BOOLEAN :
            submit_transfer_to_dcr_connector(a.caller, transfer_id, a.msg, a.fee_recipient, a.fee, a.prepaid_gas, overflow_checks)
    \/ \E caller \in Callers : submit_while_paused(caller)
    \/ \E p \in DOMAIN promises : ft_transfer_call_resolves(p)
    \/ \E p \in DOMAIN promises : submit_transfer_to_dcr_connector_callback(p)
    \/ \E caller \in Callers : callback_called_directly(caller)

Spec == Init /\ [][Next]_vars

\* the runtime's scheduling: a dispatched call is eventually resolved, and
\* a callback whose call has resolved is eventually run
Fairness ==
    \A p \in 1..MaxPromises :
        /\ WF_vars(ft_transfer_call_resolves(p))
        /\ WF_vars(submit_transfer_to_dcr_connector_callback(p))

FairSpec == Spec /\ Fairness

(***************************************************************************)
(* Encoding and decoding on their own                                      *)
(***************************************************************************)
\* the values of DcrTokenReceiverMessage that are encoded: both variants,
\* and for Withdraw each field at its empty, ordinary and extreme values
AddressValues == {Str("DsA"), Str(""), [s |-> "", d |-> <<0, 7>>]}
InputValues == {<<>>, <<"tx:0">>, <<"tx:0", "tx:1">>}
OutputValues ==
    { <<>>, <<TxOut>>,
      <<TxOut, [value |-> U64Modulus - 1, version |-> U16Modulus - 1, pk_script |-> ""]>> }
RateValues == {{}} \cup {{n} : n \in {0, 5, 10, U64Modulus - 1, U64Modulus, U128Modulus - 1}}
InstructionValues ==
    {DepositProtocolFee}
    \cup {Withdraw(addr, in, out, rate) :
             addr \in AddressValues, in \in InputValues, out \in OutputValues, rate \in RateValues}

\* the values n of DcrUtxoChainMsg::MaxFeeRate(U64(n))
MetadataValues == 0..(U64Modulus - 1)

CodecInit ==
    /\ transfers = <<>>
    /\ promises = <<>>
    /\ fee_payouts = <<>>
    /\ created = {}
    /\ last = Outcome("init", 0, "ok", 0)
    /\ codec = NoCodec

\* serde_json::from_str(&serde_json::to_string(&m)) on an instruction
instruction_round_trip(m) ==
    /\ codec' = [op |-> "instruction", value |-> m,
                 text |-> DcrTokenReceiverMessageToString(m),
                 decoded |-> DcrTokenReceiverMessageFromStr(DcrTokenReceiverMessageToString(m))]
    /\ UNCHANGED <<transfers, promises, fee_payouts, created, last>>

\* serde_json::from_str(&serde_json::to_string(&MaxFeeRate(n))) on the
\* embedded metadata
metadata_round_trip(n) ==
    /\ codec' = [op |-> "metadata", value |-> n,
                 text |-> DcrUtxoChainMsgToString(n),
                 decoded |-> DcrUtxoChainMsgFromStr(DcrUtxoChainMsgToString(n))]
    /\ UNCHANGED <<transfers, promises, fee_payouts, created, last>>

CodecNext ==
    \/ \E m \in InstructionValues : instruction_round_trip(m)
    \/ \E n \in MetadataValues : metadata_round_trip(n)

CodecSpec == CodecInit /\ [][CodecNext]_vars

(***************************************************************************)
(* Conditions of a transfer id                                             *)
(***************************************************************************)
\* the promise chains of id whose callback has not run yet
InFlight(id) == {p \in DOMAIN promises : promises[p].stage # "done" /\ promises[p].transfer_id = id}

\* the fee payouts made for id
Payouts(id) == {k \in DOMAIN fee_payouts : fee_payouts[k].transfer_id = id}

IsPending(id) == id \in DOMAIN transfers /\ InFlight(id) = {}
IsInFlight(id) == id \notin DOMAIN transfers /\ Cardinality(InFlight(id)) = 1
IsSettled(id) == id \notin DOMAIN transfers /\ InFlight(id) = {} /\ Payouts(id) # {}

\* this step is a call of submit_transfer_to_dcr_connector for id
SubmitStep(id) == last'.op = "submit" /\ last'.transfer_id = id /\ last' # last

\* this step is the callback of promise chain p
CallbackStep(p) ==
    /\ p \in DOMAIN promises
    /\ promises[p].stage = "callback"
    /\ promises'[p].stage = "done"

(***************************************************************************)
(* The properties                                                          *)
(***************************************************************************)
\* C1: exactly-once submission.  While a settlement call or its callback
\* is outstanding for an id, every call of submit_transfer_to_dcr_connector
\* for that id fails because the record is absent and creates no promise,
\* and at most one promise chain per id is ever outstanding.
C1_ExactlyOnceSubmission ==
    [][\A id \in TransferIds :
         /\ Cardinality(InFlight(id)') <= 1
         /\ (InFlight(id) # {} /\ SubmitStep(id))
              => (last'.outcome = "ERR_TRANSFER_NOT_EXIST" /\ promises' = promises)]_vars

C1_Witness ==
    /\ last.op = "submit"
    /\ last.outcome = "ERR_TRANSFER_NOT_EXIST"
    /\ InFlight(last.transfer_id) # {}

\* C2: a transfer is never settled twice.  At most one fee payout is made
\* for an id, and once it is made the id has no record and no outstanding
\* promise chain, so that no later submission for it is accepted.
C2_NeverSettledTwice ==
    \A id \in TransferIds :
        /\ Cardinality(Payouts(id)) <= 1
        /\ Payouts(id) # {} => (id \notin DOMAIN transfers /\ InFlight(id) = {})

C2_Witness ==
    /\ last.op = "submit"
    /\ last.outcome = "ERR_TRANSFER_NOT_EXIST"
    /\ Payouts(last.transfer_id) # {}

\* C3: every created id is pending, in flight or settled, and in only one
\* of the three; a record is never in the registry while a promise chain
\* for its id is outstanding, and an id that is neither in the registry nor
\* in flight has had its fee paid.
C3_OneConditionPerId ==
    \A id \in created :
        /\ IsPending(id) \/ IsInFlight(id) \/ IsSettled(id)
        /\ ~(IsPending(id) /\ IsInFlight(id))
        /\ ~(IsPending(id) /\ IsSettled(id))
        /\ ~(IsInFlight(id) /\ IsSettled(id))
        /\ ~(id \in DOMAIN transfers /\ InFlight(id) # {})

C3_Witness ==
    \E id \in created : IsInFlight(id) /\ last.op = "resolve"

\* C4: compensation.  A callback whose settlement call failed, or succeeded
\* with the amount zero, leaves the registry holding, under the id of the
\* transfer, exactly the record and owner that the submission removed, and
\* changes no other entry.
C4_Compensation ==
    [][\A p \in DOMAIN promises :
         (CallbackStep(p) /\ (~promises[p].call_result.ok \/ promises[p].call_result.val = 0))
           => /\ DOMAIN transfers' = DOMAIN transfers \cup {promises[p].transfer_id}
              /\ transfers'[promises[p].transfer_id] = promises[p].removed
              /\ \A id \in DOMAIN transfers \ {promises[p].transfer_id} : transfers'[id] = transfers[id]]_vars

C4_Witness ==
    /\ last.op = "callback"
    /\ fee_payouts = <<>>
    /\ last.transfer_id \in DOMAIN transfers
    /\ transfers[last.transfer_id].owner = Bob

\* C5: a callback whose settlement call succeeded with an amount greater
\* than zero pays the fee of the record (fee.fee) to the fee recipient
\* resolved by the submission, and leaves no record for the id.
C5_FeePaidOnSuccess ==
    [][\A p \in DOMAIN promises :
         (CallbackStep(p) /\ promises[p].call_result.ok /\ promises[p].call_result.val > 0)
           => /\ fee_payouts' = Append(fee_payouts, [transfer_id |-> promises[p].transfer_id,
                                                     fee_recipient |-> promises[p].callback.fee_recipient,
                                                     amount |-> promises[p].removed.message.fee.fee])
              /\ promises[p].transfer_id \notin DOMAIN transfers']_vars

C5_Witness ==
    /\ last.op = "callback"
    /\ \E k \in DOMAIN fee_payouts : fee_payouts[k].amount = 1 /\ fee_payouts[k].fee_recipient = Bob
    /\ last.transfer_id \notin DOMAIN transfers

\* C6: every execution of the callback does exactly one of two things: it
\* pays the fee and leaves the registry alone, or it puts a record in the
\* registry and pays nothing.
C6_PayOrRestore ==
    [][\A p \in DOMAIN promises :
         CallbackStep(p)
           => \/ (Len(fee_payouts') = Len(fee_payouts) + 1 /\ transfers' = transfers)
              \/ (fee_payouts' = fee_payouts /\ transfers' # transfers
                    /\ promises[p].transfer_id \in DOMAIN transfers')]_vars

C6_Witness ==
    /\ last.op = "callback"
    /\ Len(promises) = 2
    /\ promises[1].stage = "done"
    /\ promises[2].stage = "done"
    /\ Len(fee_payouts) = 1
    /\ last.transfer_id \notin DOMAIN transfers

\* the panic messages of the validation checks
ValidationFailures ==
    { "INVALID DCR MSG", "Invalid DCR message type", "Invalid destination chain for DCR",
      "Incorrect target address", "Invalid Transfer MSG for DCR UTXO chain", "max_fee_rate is missing",
      "Invalid max fee rate", "Invalid fee", "submit_transfer_to_dcr_connector can only be used for Decred",
      "Only the native token of this UTXO chain can be transferred." }

\* C7: a submission that fails a validation check changes nothing: the
\* registry, the promise chains and the fee payouts are as before, and the
\* record is still in the registry.
C7_RejectionChangesNothing ==
    [][\A id \in TransferIds :
         (SubmitStep(id) /\ last'.outcome \in ValidationFailures)
           => /\ transfers' = transfers
              /\ promises' = promises
              /\ fee_payouts' = fee_payouts
              /\ id \in DOMAIN transfers']_vars

C7_Witness ==
    /\ last.op = "submit"
    /\ last.outcome = "Invalid fee"
    /\ last.transfer_id \in DOMAIN transfers

\* the record and the decoded instruction of an outstanding promise chain
Dispatched == {p \in DOMAIN promises : promises[p].stage # "done"}
InstructionOf(p) == DcrTokenReceiverMessageFromStr(promises[p].call.msg)

\* C8: a settlement call is dispatched only for a Withdraw instruction
\* whose target address is the UTXO address of the recipient of the record
\* that was removed.
C8_TargetAddressMatches ==
    \A p \in Dispatched :
        \E m \in InstructionOf(p) :
            /\ m.variant = "Withdraw"
            /\ get_utxo_address(promises[p].removed.message.recipient) = {m.target_dcr_address}

C8_Witness ==
    /\ last.op = "submit"
    /\ last.outcome = "ok"
    /\ last.promise \in Dispatched
    /\ promises[last.promise].removed.message.recipient.address = Str("DsA")

\* the panic messages of the fee-rate check
FeeRateFailures == {"Invalid Transfer MSG for DCR UTXO chain", "max_fee_rate is missing", "Invalid max fee rate"}

\* the call with arguments a for id reaches the fee-rate check on a record
\* that carries metadata: the record exists, the instruction decodes to a
\* Withdraw whose target is the address of the record, the subtraction has
\* not panicked
ReachesFeeRateCheck(id, a, overflow_checks) ==
    /\ id \in DOMAIN transfers
    /\ transfers[id].message.msg # EmptyText
    /\ ~(overflow_checks /\ SubtractionOverflows(transfers[id].message))
    /\ \E m \in DcrTokenReceiverMessageFromStr(a.msg) :
          /\ m.variant = "Withdraw"
          /\ get_utxo_address(transfers[id].message.recipient) = {m.target_dcr_address}

\* C9: fee-rate enforcement.  On a record whose metadata decodes to
\* MaxFeeRate(r) a call that reaches the fee-rate check passes it exactly
\* when the instruction carries a max_fee_rate equal to r as a number; on a
\* record whose metadata is not empty and does not decode, the call fails.
C9_FeeRateEnforcement ==
    [][\A id \in TransferIds :
         (SubmitStep(id) /\ id \in DOMAIN transfers /\ transfers[id].message.msg # EmptyText)
           => \A a \in ArgSamples(id), overflow_checks \in BOOLEAN :
                (/\ ReachesFeeRateCheck(id, a, overflow_checks)
                 /\ submit_transfer_to_dcr_connector(a.caller, id, a.msg, a.fee_recipient, a.fee, a.prepaid_gas, overflow_checks))
                  => LET r == DcrUtxoChainMsgFromStr(transfers[id].message.msg)
                         m == CHOOSE m \in DcrTokenReceiverMessageFromStr(a.msg) : TRUE
                     IN  IF r = {}
                         THEN last'.outcome = "Invalid Transfer MSG for DCR UTXO chain"
                         ELSE (last'.outcome \notin FeeRateFailures)
                                <=> (\E n \in m.max_fee_rate : n \in r)]_vars

C9_Witness ==
    /\ last.op = "submit"
    /\ last.outcome = "ok"
    /\ last.promise \in Dispatched
    /\ promises[last.promise].removed.message.msg = MetaRate05
    /\ \E m \in InstructionOf(last.promise) : m.max_fee_rate = {5}

\* C10: a settlement call is dispatched only for a record whose destination
\* chain is Dcr and whose token is the wrapped token of Dcr, and a record
\* with another chain or another token never leaves the registry.
C10_ChainAndToken ==
    [][/\ \A p \in Dispatched' :
            /\ get_destination_chain(promises'[p].removed.message) = "Dcr"
            /\ get_token_id(promises'[p].removed.message.token) = {get_utxo_chain_token("Dcr")}
       /\ \A id \in DOMAIN transfers :
            (\/ get_destination_chain(transfers[id].message) # "Dcr"
             \/ get_token_id(transfers[id].message.token) # {get_utxo_chain_token("Dcr")})
              => (id \in DOMAIN transfers' /\ transfers'[id] = transfers[id])]_vars

C10_Witness ==
    /\ last.op = "submit"
    /\ last.outcome = "Only the native token of this UTXO chain can be transferred."
    /\ last.transfer_id \in DOMAIN transfers

\* C11: the asserted fee.  A call that passes a fee is accepted only if that
\* fee equals the fee of the record in both of its fields, a call that
\* passes one that differs and reaches the comparison fails with "Invalid
\* fee", and a call that passes no fee never fails with "Invalid fee".
C11_AssertedFee ==
    [][\A id \in TransferIds :
         (SubmitStep(id) /\ id \in DOMAIN transfers)
           => \A a \in ArgSamples(id), overflow_checks \in BOOLEAN :
                submit_transfer_to_dcr_connector(a.caller, id, a.msg, a.fee_recipient, a.fee, a.prepaid_gas, overflow_checks)
                  => /\ (last'.outcome = "ok" /\ a.fee # {}) => a.fee = {transfers[id].message.fee}
                     /\ (a.fee # {} /\ a.fee # {transfers[id].message.fee})
                          => last'.outcome \in {"Invalid fee", "INVALID DCR MSG", "attempt to subtract with overflow"}
                                                \cup {"Invalid destination chain for DCR", "Invalid DCR message type",
                                                      "Incorrect target address"} \cup FeeRateFailures
                     /\ a.fee = {} => last'.outcome # "Invalid fee"]_vars

\* an accepted call that asserted the fee of its record, native fee included
\* (of the calls, only those that pass a fee name Bob as the fee recipient)
C11_Witness ==
    /\ last.op = "submit"
    /\ last.outcome = "ok"
    /\ last.promise \in Dispatched
    /\ promises[last.promise].callback.fee_recipient = Bob
    /\ promises[last.promise].removed.message.fee = Fee(1, 1)

\* C12: the amount of every dispatched settlement call is the amount of the
\* removed record minus its fee.fee, as integers, and the payload of the
\* call is the instruction string the caller passed.
C12_NetAmountAndPayload ==
    [][\A id \in TransferIds :
         (SubmitStep(id) /\ last'.outcome = "ok")
           => \A a \in ArgSamples(id), overflow_checks \in BOOLEAN :
                submit_transfer_to_dcr_connector(a.caller, id, a.msg, a.fee_recipient, a.fee, a.prepaid_gas, overflow_checks)
                  => /\ promises'[last'.promise].call.amount
                          = transfers[id].message.amount - transfers[id].message.fee.fee
                     /\ promises'[last'.promise].call.msg = a.msg]_vars

\* C13: the fee recipient is fixed by the submission.  An accepted call
\* puts into its promise chain the fee_recipient argument when there is one
\* and the caller otherwise; the promise chain carries that account
\* unchanged until its callback runs; and a callback that pays the fee pays
\* it to that account.
C13_FeeRecipientFixed ==
    [][/\ \A id \in TransferIds :
            (SubmitStep(id) /\ last'.outcome = "ok")
              => \A a \in ArgSamples(id), overflow_checks \in BOOLEAN :
                   submit_transfer_to_dcr_connector(a.caller, id, a.msg, a.fee_recipient, a.fee, a.prepaid_gas, overflow_checks)
                     => \/ a.fee_recipient = {} /\ promises'[last'.promise].callback.fee_recipient = a.caller
                        \/ a.fee_recipient = {promises'[last'.promise].callback.fee_recipient}
       /\ \A p \in DOMAIN promises :
            (promises[p].stage # "done" /\ promises'[p].stage # "done")
              => promises'[p].callback.fee_recipient = promises[p].callback.fee_recipient
       /\ \A p \in DOMAIN promises :
            (CallbackStep(p) /\ CallSucceeded(promises[p].call_result))
              => /\ Len(fee_payouts') = Len(fee_payouts) + 1
                 /\ fee_payouts'[Len(fee_payouts')].fee_recipient = promises[p].callback.fee_recipient]_vars

\* the fee was paid to Alice, who is the fee recipient only as the caller of
\* a submission that named none
C13_Witness ==
    /\ last.op = "callback"
    /\ \E k \in Payouts(last.transfer_id) : fee_payouts[k].fee_recipient = Alice

\* the callback of promise chain p takes effect in this step
CallbackRuns(p) == promises[p].stage # "done" /\ promises'[p].stage = "done"

\* C14: the callback runs once per accepted submission, after the removal
\* and after the settlement call has resolved.  A promise chain is created
\* only by an accepted submission, with its call unresolved and its record
\* removed; a rejected submission creates none; a chain moves only from
\* call to callback (when the call resolves) to done (when the callback
\* runs), so the callback runs once and only on a resolved call, while its
\* id has no record; fees are paid and records reinserted only by such a run;
\* and a direct call of the callback by another account changes nothing.
C14_CallbackOnceAfterOutcome ==
    [][/\ Len(promises') >= Len(promises)
       /\ Len(promises') > Len(promises)
            => /\ Len(promises') = Len(promises) + 1
               /\ last'.op = "submit" /\ last'.outcome = "ok" /\ last'.promise = Len(promises')
               /\ promises'[Len(promises')].stage = "call"
               /\ promises'[Len(promises')].transfer_id \notin DOMAIN transfers'
       /\ \A id \in TransferIds : (SubmitStep(id) /\ last'.outcome # "ok") => promises' = promises
       /\ \A p \in DOMAIN promises :
            /\ promises[p].stage = "call" => promises'[p].stage \in {"call", "callback"}
            /\ promises[p].stage = "callback" => promises'[p].stage \in {"callback", "done"}
            /\ promises[p].stage = "done" => promises'[p].stage = "done"
            /\ (promises[p].stage = "call" /\ promises'[p].stage = "callback")
                 => (last'.op = "resolve" /\ last'.promise = p)
            /\ CallbackRuns(p)
                 => /\ promises[p].stage = "callback"
                    /\ promises[p].transfer_id \notin DOMAIN transfers
                    /\ last'.op = "callback" /\ last'.promise = p
                    /\ \A q \in DOMAIN promises \ {p} : ~CallbackRuns(q)
       /\ (fee_payouts' # fee_payouts \/ DOMAIN transfers' \ DOMAIN transfers # {})
            => \E p \in DOMAIN promises : CallbackRuns(p)
       /\ last'.op = "direct"
            => (transfers' = transfers /\ promises' = promises /\ fee_payouts' = fee_payouts)]_vars

\* two accepted submissions of the same id, each with its callback run
C14_Witness ==
    /\ last.op = "callback"
    /\ last.promise = 2
    /\ promises[1].stage = "done"
    /\ promises[2].stage = "done"
    /\ last.transfer_id \in DOMAIN transfers

C16_RoundTrip ==
    /\ codec.op \in {"instruction", "metadata"} => codec.decoded = {codec.value}
    /\ codec.op = "metadata"
         => /\ codec.text.kind = "object"
            /\ codec.text.key = "MaxFeeRate"
            /\ codec.text.val.jt = "string"
            /\ codec.text.val.d # <<>>
            /\ DecValue(codec.text.val.d) = codec.value

\* a Withdraw with two outputs and the largest max_fee_rate has been encoded
\* and decoded
C16_Witness ==
    /\ codec.op = "instruction"
    /\ codec.value.variant = "Withdraw"
    /\ Len(codec.value.output) = 2
    /\ codec.value.max_fee_rate = {U128Modulus - 1}
    /\ codec.text.body.max_fee_rate.jt = "string"

\* the eight validation checks, each on its own: check k fails for the
\* record transfer and the call arguments a
CheckFails(k, transfer, a) ==
    LET decoded == DcrTokenReceiverMessageFromStr(a.msg)
        address == get_utxo_address(transfer.message.recipient)
    IN  CASE k = 1 -> decoded = {}
          [] k = 2 -> \A m \in decoded : m.variant # "Withdraw"
          [] k = 3 -> address = {}
          [] k = 4 -> \A m \in decoded : m.variant # "Withdraw" \/ address # {m.target_dcr_address}
          [] k = 5 -> \A m \in decoded : FeeRateCheck(transfer.message.msg, m.max_fee_rate) # "ok"
          [] k = 6 -> a.fee # {} /\ a.fee # {transfer.message.fee}
          [] k = 7 -> get_destination_chain(transfer.message) # "Dcr"
          [] k = 8 -> get_token_id(transfer.message.token) # {get_utxo_chain_token("Dcr")}

\* the panic message of check k
CheckMessage(k, transfer, a) ==
    CASE k = 1 -> "INVALID DCR MSG"
      [] k = 2 -> "Invalid DCR message type"
      [] k = 3 -> "Invalid destination chain for DCR"
      [] k = 4 -> "Incorrect target address"
      [] k = 5 -> FeeRateCheck(transfer.message.msg,
                               (CHOOSE m \in DcrTokenReceiverMessageFromStr(a.msg) : TRUE).max_fee_rate)
      [] k = 6 -> "Invalid fee"
      [] k = 7 -> "submit_transfer_to_dcr_connector can only be used for Decred"
      [] k = 8 -> "Only the native token of this UTXO chain can be transferred."

\* the message of the first check of order (a sequence of check numbers)
\* that fails, or "ok" when none does
EarliestFailure(order, transfer, a) ==
    IF \A i \in DOMAIN order : ~CheckFails(order[i], transfer, a) THEN "ok"
    ELSE LET first == CHOOSE i \in DOMAIN order :
                         /\ CheckFails(order[i], transfer, a)
                         /\ \A j \in 1..(i - 1) : ~CheckFails(order[j], transfer, a)
         IN  CheckMessage(order[first], transfer, a)

\* the order of the code, which looks at the recipient (check 3) before the
\* variant (check 2)
CodeOrder == <<1, 3, 2, 4, 5, 6, 7, 8>>

\* C17 as stated: a submission rejected by a validation check is rejected by
\* the earliest failing check in the listed order 1..8.
C17_ListedOrder ==
    [][\A id \in TransferIds :
         (SubmitStep(id) /\ id \in DOMAIN transfers /\ last'.outcome \in ValidationFailures)
           => \A a \in ArgSamples(id), overflow_checks \in BOOLEAN :
                submit_transfer_to_dcr_connector(a.caller, id, a.msg, a.fee_recipient, a.fee, a.prepaid_gas, overflow_checks)
                  => last'.outcome = EarliestFailure(<<1, 2, 3, 4, 5, 6, 7, 8>>, transfers[id], a)]_vars

\* C17, amended: the checks are applied in the order 1, 3, 2, 4, 5, 6, 7, 8.
\* A submission rejected by a validation check is rejected by the earliest
\* failing check in that order, an accepted submission fails none, and a
\* parseable instruction that is not a Withdraw is never rejected as the
\* wrong message type when the recipient of the record does not resolve.
C17_CodeOrder ==
    [][\A id \in TransferIds :
         (SubmitStep(id) /\ id \in DOMAIN transfers)
           => \A a \in ArgSamples(id), overflow_checks \in BOOLEAN :
                submit_transfer_to_dcr_connector(a.caller, id, a.msg, a.fee_recipient, a.fee, a.prepaid_gas, overflow_checks)
                  => /\ last'.outcome \in ValidationFailures
                          => last'.outcome = EarliestFailure(CodeOrder, transfers[id], a)
                     /\ last'.outcome = "ok" => EarliestFailure(CodeOrder, transfers[id], a) = "ok"
                     /\ (CheckFails(3, transfers[id], a) /\ ~CheckFails(1, transfers[id], a))
                          => last'.outcome # "Invalid DCR message type"]_vars

\* a call on a record whose recipient is not a UTXO address, which fails
\* check 3 and check 7 whatever the instruction, was rejected for check 3
C17_Witness ==
    /\ last.op = "submit"
    /\ last.outcome = "Invalid destination chain for DCR"
    /\ last.transfer_id \in DOMAIN transfers
    /\ get_utxo_address(transfers[last.transfer_id].message.recipient) = {}
    /\ get_destination_chain(transfers[last.transfer_id].message) # "Dcr"

\* C18: under the fairness of the runtime, an id that is in flight is
\* eventually settled (fee paid, no record) or pending again (record back
\* in the registry, nothing outstanding): no id stays in flight forever.
C18_EventuallySettledOrPending ==
    \A id \in TransferIds : IsInFlight(id) ~> (IsSettled(id) \/ IsPending(id))

\* an id that was submitted twice: the first attempt ended pending again,
\* the second ended settled
C18_Witness ==
    /\ Len(promises) = 2
    /\ promises[1].stage = "done"
    /\ promises[2].stage = "done"
    /\ promises \in Seq({Finished})
    /\ \E id \in created : IsSettled(id) /\ Cardinality(Payouts(id)) = 1

\* C19: the branch of the callback depends only on whether the settlement
\* call succeeded with an amount greater than zero.  A reported amount
\* greater than zero, whether it is the dispatched amount or less, pays the
\* whole fee.fee and reinstates nothing; a failure or a reported zero, and
\* nothing else, reinstates the record and pays nothing.
C19_PartialAmountIsSuccess ==
    [][\A p \in DOMAIN promises :
         CallbackStep(p)
           => LET result == promises[p].call_result
                  id == promises[p].transfer_id
              IN  /\ (result.ok /\ result.val > 0)
                        => /\ Len(fee_payouts') = Len(fee_payouts) + 1
                           /\ fee_payouts'[Len(fee_payouts')].amount = promises[p].removed.message.fee.fee
                           /\ transfers' = transfers
                           /\ id \notin DOMAIN transfers'
                  /\ (id \in DOMAIN transfers') <=> (~result.ok \/ result.val = 0)
                  /\ (~result.ok \/ result.val = 0) => fee_payouts' = fee_payouts]_vars

\* the callback of a call that dispatched 2 and reported 1 has paid the fee
\* of 1 and left no record
C19_Witness ==
    /\ last.op = "callback"
    /\ last.call_result = Ok(1)
    /\ last.transfer_id \notin DOMAIN transfers
    /\ \E k \in Payouts(last.transfer_id) :
          /\ k = Len(fee_payouts)
          /\ fee_payouts[k].amount = 1

\* C20: the amount of a dispatched settlement call never exceeds the amount
\* of the record it was made for, and no settlement call is ever dispatched
\* for a record whose fee.fee is greater than its amount.
C20_NoWrappedAmount ==
    \A p \in Dispatched :
        /\ promises[p].call.amount <= promises[p].removed.message.amount
        /\ promises[p].removed.message.fee.fee <= promises[p].removed.message.amount

====
